---- MODULE Spec2Model ----
(***************************************************************************)
(* codesiz (src/main.go): the statistics engine (computeStats), the        *)
(* cluster engine (runKMeans, computeClusterSummaries, labelClusters) and  *)
(* the part of main that drives them.                                      *)
(*                                                                         *)
(* Numbers.  Go's int values are TLA+ integers.  A float64 is modelled by  *)
(* the real number it stands for, written [num, den, root]: the value      *)
(* (num/den)^(1/root), den > 0, num/den in lowest terms, root = 2 only for *)
(* the square root of a non-square.  Every integer of the model is far     *)
(* below 2^53, so int -> float64 conversions are exact; the rounding of a  *)
(* quotient or of a square root to 53 bits is not represented.             *)
(*                                                                         *)
(* Slices.  A slice is a reference (a name) into heap, the backing arrays; *)
(* make+copy gives a new array, so that writing through one slice is seen  *)
(* through every slice that shares the array.  Go indices are 0-based, the *)
(* sequences are 1-based: Go's s[i] is s[i+1] here.                        *)
(***************************************************************************)
EXTENDS Integers, Sequences, FiniteSets, TLC

\* ---- bounds of the model ----
MaxFiles == 4     \* files found by the walk: 0..MaxFiles
MaxLines == 4     \* line count of a file: 0..MaxLines
MaxK == 2         \* value of the -k flag: -1..MaxK

\* ---- program constants ----
K == 3                 \* k := 3
MaxIter == 10          \* for iter := 0; iter < 10; iter++
MinSentinel == 1000000000   \* summaries[j].Min = 1e9
MaxSentinel == -1           \* summaries[j].Max = -1

\* ---- integers ----
Abs(i) == IF i < 0 THEN -i ELSE i

Max(S) == CHOOSE x \in S : \A y \in S : y <= x

RECURSIVE GCD(_, _)
GCD(a, b) == IF b = 0 THEN a ELSE GCD(b, a % b)

\* largest r with r*r <= n, by bisection on lo..hi
RECURSIVE ISqrtIn(_, _, _)
ISqrtIn(n, lo, hi) ==
  IF lo >= hi THEN lo
  ELSE LET mid == (lo + hi + 1) \div 2
       IN  IF mid * mid <= n THEN ISqrtIn(n, mid, hi) ELSE ISqrtIn(n, lo, mid - 1)

ISqrt(n) == ISqrtIn(n, 0, IF n < 46340 THEN n ELSE 46340)

\* ---- float64 ----
\* the value n/d, d # 0, in lowest terms with a positive denominator
Rat(n, d) ==
  LET g == GCD(Abs(n), Abs(d))
      s == IF d < 0 THEN -1 ELSE 1
  IN  [num |-> s * (n \div g), den |-> s * (d \div g), root |-> 1]

\* float64(i)
F(i) == [num |-> i, den |-> 1, root |-> 1]

FAdd(a, b) == Rat(a.num * b.den + b.num * a.den, a.den * b.den)
FSub(a, b) == Rat(a.num * b.den - b.num * a.den, a.den * b.den)
FMul(a, b) == Rat(a.num * b.num, a.den * b.den)
FDiv(a, b) == Rat(a.num * b.den, a.den * b.num)
FLess(a, b) == a.num * b.den < b.num * a.den
FAbs(a) == [a EXCEPT !.num = Abs(a.num)]

\* math.Sqrt of a value >= 0
Sqrt(a) ==
  LET n == ISqrt(a.num)
      d == ISqrt(a.den)
  IN  IF n * n = a.num /\ d * d = a.den
      THEN [num |-> n, den |-> d, root |-> 1]
      ELSE [a EXCEPT !.root = 2]

\* math.Round: nearest integer, halves away from zero
Round(a) ==
  IF a.root = 1
  THEN IF a.num >= 0
       THEN (2 * a.num + a.den) \div (2 * a.den)
       ELSE -((2 * (-a.num) + a.den) \div (2 * a.den))
  ELSE \* sqrt(q), q a non-square: m such that (m - 1/2)^2 < q < (m + 1/2)^2
       LET m == ISqrt(a.num \div a.den)
       IN  IF (2 * m + 1) * (2 * m + 1) * a.den <= 4 * a.num THEN m + 1 ELSE m

\* ---- sort ----
\* the less function handed to the sort: sort.Ints and sort.Float64s compare
\* the elements, main compares files[i].LineCount < files[j].LineCount
Less(by, a, b) ==
  CASE by = "int" -> a < b
    [] by = "float64" -> FLess(a, b)
    [] by = "LineCount" -> a.LineCount < b.LineCount

\* The insertion sort the sort package runs on a slice of at most 12
\* elements: element i moves left while less(it, its left neighbour).
InsertionSort(s, by) ==
  LET Insert(acc, x) ==
        LET ks == {j \in 1..Len(acc) : ~Less(by, x, acc[j])}
            p == IF ks = {} THEN 0 ELSE Max(ks)
        IN  SubSeq(acc, 1, p) \o <<x>> \o SubSeq(acc, p + 1, Len(acc))
      f[i \in 0..Len(s)] == IF i = 0 THEN <<>> ELSE Insert(f[i - 1], s[i])
  IN  f[Len(s)]

\* no sort at all
SortIntsNot(s) == s

\* sort.Ints
SortInts(s) == InsertionSort(s, "int")

\* sort.Float64s
SortFloat64s(s) == InsertionSort(s, "float64")

\* ---- computeStats ----
RECURSIVE SumInts(_)
SumInts(s) == IF s = <<>> THEN 0 ELSE s[1] + SumInts(Tail(s))

RECURSIVE SumFloats(_)
SumFloats(s) == IF s = <<>> THEN F(0) ELSE FAdd(s[1], SumFloats(Tail(s)))

\* a slice that shares the array of src instead of copying it
AliasOf(src, fresh) == src

\* the array `sorted` refers to after `sorted := make(..); copy(sorted, sizes)`
CopyOf(src, fresh) == fresh

\* the quotient of the two ints, not of their float64s
AverageIntDiv(sizes) == F(SumInts(sizes) \div Len(sizes))

\* avg = float64(sum) / float64(len(sizes))
Average(sizes) == FDiv(F(SumInts(sizes)), F(Len(sizes)))

\* diff := float64(s) - avg, for each s
Diffs(sizes, avg) == [i \in 1..Len(sizes) |-> FSub(F(sizes[i]), avg)]

\* a test that sends a sample equal to the average to the low partition
IsHighStrict(diff) == FLess(F(0), diff)

\* diff >= 0
IsHigh(diff) == ~FLess(diff, F(0))

\* math.Sqrt(varianceSum / float64(count)) over the diffs of one partition,
\* the zero value when the partition is empty
StdDev(diffs) ==
  LET sq == [i \in 1..Len(diffs) |-> FMul(diffs[i], diffs[i])]
  IN  IF Len(diffs) > 0 THEN Sqrt(FDiv(SumFloats(sq), F(Len(diffs)))) ELSE F(0)

ZeroStats == [avg |-> F(0), median |-> F(0), stdHigh |-> F(0), stdLow |-> F(0),
              panicked |-> FALSE]

\* the statements of computeStats after its guard; a division of 0.0 by 0.0
\* is not an error in Go, an index outside the slice is a run-time panic
computeStatsBody(sizes, sorted) ==
  LET n == Len(sorted)
      mid == n \div 2
  IN  IF n = 0 \/ Len(sizes) = 0
      THEN [ZeroStats EXCEPT !.panicked = TRUE]
      ELSE LET avg == Average(sizes)
               diffs == Diffs(sizes, avg)
               NotHigh(d) == ~IsHigh(d)
           IN  [avg |-> avg,
                median |-> IF n % 2 = 0
                           THEN FDiv(F(sorted[mid] + sorted[mid + 1]), F(2))
                           ELSE F(sorted[mid + 1]),
                stdHigh |-> StdDev(SelectSeq(diffs, IsHigh)),
                stdLow |-> StdDev(SelectSeq(diffs, NotHigh)),
                panicked |-> FALSE]

\* computeStats without its guard
computeStatsNoGuard(sizes, sorted) == computeStatsBody(sizes, sorted)

\* computeStats(sizes), sorted being the sorted copy it makes
computeStats(sizes, sorted) ==
  IF Len(sizes) = 0 THEN ZeroStats ELSE computeStatsBody(sizes, sorted)

\* ---- the cluster engine ----
\* a scan that also replaces best on an equal distance
CloserOrEqual(d, bestDist) == ~FLess(bestDist, d)

\* the scan of runKMeans for one sample: best := 0, then j = 1..k-1 replaces
\* best when its distance is strictly smaller
Closer(d, bestDist) == FLess(d, bestDist)

Best(x, centroids, k) ==
  LET Dist(j) == FAbs(FSub(x, centroids[j + 1]))
      b[j \in 0..(k - 1)] ==
        IF j = 0 THEN 0
        ELSE IF Closer(Dist(j), Dist(b[j - 1])) THEN j ELSE b[j - 1]
  IN  b[k - 1]

\* the indices (1-based) of the samples assigned to cluster j
Members(assignments, j) == {i \in 1..Len(assignments) : assignments[i] = j}

RECURSIVE SumOver(_, _)
SumOver(data, I) ==
  IF I = {} THEN F(0)
  ELSE LET i == CHOOSE x \in I : TRUE
       IN  FAdd(data[i], SumOver(data, I \ {i}))

\* an empty cluster whose centroid falls to 0
EmptyCentroidZero(old) == F(0)

\* the centroid an empty cluster gets
EmptyCentroid(old) == old

\* newCentroids of one iteration
NewCentroids(data, assignments, centroids, k) ==
  [c \in 1..k |->
     LET I == Members(assignments, c - 1)
     IN  IF Cardinality(I) > 0
         THEN FDiv(SumOver(data, I), F(Cardinality(I)))
         ELSE EmptyCentroid(centroids[c])]

\* first centroids taken from the first three elements
InitCentroidsFirstThree(sortedData) == <<sortedData[1], sortedData[2], sortedData[3]>>

\* the first centroids: min, middle and max of the sorted copy
InitCentroids(sortedData) ==
  LET n == Len(sortedData)
  IN  <<sortedData[1], sortedData[(n \div 2) + 1], sortedData[n]>>

\* a count that moves only when the sample is a new minimum
AddSampleCountOnNewMin(sm, x) ==
  [sm EXCEPT !.Count = IF FLess(x, sm.Min) THEN @ + 1 ELSE @,
             !.Sum = FAdd(@, x),
             !.Min = IF FLess(x, @) THEN x ELSE @,
             !.Max = IF FLess(@, x) THEN x ELSE @]

\* the body of the loop over the assignments in computeClusterSummaries
AddSample(sm, x) ==
  [sm EXCEPT !.Count = @ + 1,
             !.Sum = FAdd(@, x),
             !.Min = IF FLess(x, @) THEN x ELSE @,
             !.Max = IF FLess(@, x) THEN x ELSE @]

\* computeClusterSummaries: summaries[j] is at j + 1
computeClusterSummaries(data, assignments, k) ==
  LET init == [j \in 1..k |->
                 [Cluster |-> j - 1, Count |-> 0, Sum |-> F(0),
                  Min |-> F(MinSentinel), Max |-> F(MaxSentinel), Avg |-> F(0)]]
      acc[i \in 0..Len(assignments)] ==
        IF i = 0 THEN init
        ELSE [acc[i - 1] EXCEPT ![assignments[i] + 1] = AddSample(@, data[i])]
      filled == acc[Len(assignments)]
  IN  [j \in 1..k |->
         IF filled[j].Count > 0
         THEN [filled[j] EXCEPT !.Avg = FDiv(filled[j].Sum, F(filled[j].Count))]
         ELSE filled[j]]

\* less functions that order the averages the other way, and that move an
\* element past an equal one
AvgGreater(a, b) == FLess(b.Avg, a.Avg)

AvgLessOrEqual(a, b) == ~FLess(b.Avg, a.Avg)

\* the less function of labelClusters' sort.Slice
AvgLess(a, b) == FLess(a.Avg, b.Avg)

\* sort.Slice(idxs, less) of labelClusters, on its three elements: the same
\* insertion sort, with AvgLess
SortIdxs(idxs) ==
  LET Insert(acc, x) ==
        LET ks == {j \in 1..Len(acc) : ~AvgLess(x, acc[j])}
            p == IF ks = {} THEN 0 ELSE Max(ks)
        IN  SubSeq(acc, 1, p) \o <<x>> \o SubSeq(acc, p + 1, Len(acc))
      f[i \in 0..Len(idxs)] == IF i = 0 THEN <<>> ELSE Insert(f[i - 1], idxs[i])
  IN  f[Len(idxs)]

\* labelClusters: a map from cluster id to label; in a map literal a later
\* entry with the same key replaces an earlier one
labelClusters(summaries) ==
  LET k == Len(summaries)
      idxs == SortIdxs([j \in 1..k |-> [Index |-> j - 1, Avg |-> summaries[j].Avg]])
  IN  (idxs[3].Index :> "Large") @@ (idxs[2].Index :> "Medium")
        @@ (idxs[1].Index :> "Small")

\* the clusterResults of main
ClusterResults(summaries, labels, n, k) ==
  [c \in 1..k |->
     LET sm == summaries[c]
         avgVal == IF sm.Count > 0 THEN FDiv(sm.Sum, F(sm.Count)) ELSE F(0)
     IN  [Label |-> labels[c - 1],
          Count |-> sm.Count,
          Percentage |-> FDiv(F(100 * sm.Count), F(n)),
          Avg |-> Round(avgVal),
          Range |-> <<Round(sm.Min), Round(sm.Max)>>]]

\* ---- main ----
VARIABLES
  pc,             \* the statement of main about to run
  kFlag,          \* *kFlag
  jsonOutput,     \* *jsonOutput
  files,          \* files, a sequence of FileData
  excludedFiles,  \* excludedFiles
  heap,           \* the backing arrays of sizes, sorted, data and sortedData
  smallest,       \* smallest and largest, <<>> before they are set
  largest,
  stats,          \* avg, median, stdHigh, stdLow of main
  sumTotal,       \* sumTotal
  centroids,      \* centroids, assignments and iter of runKMeans
  assignments,
  iter,
  changed,        \* changed, as the last iteration left it
  summaries,      \* summaries, <<>> before computeClusterSummaries
  labels,         \* labels, <<>> before labelClusters
  clusterResults, \* clusterResults, <<>> while nil
  jsonFile,       \* the document written to <folder>.codesiz.json, <<>> if none
  output          \* the lines printed so far

vars == <<pc, kFlag, jsonOutput, files, excludedFiles, heap, smallest, largest,
          stats, sumTotal, centroids, assignments, iter, changed, summaries,
          labels, clusterResults, jsonFile, output>>

Line(text, args) == [text |-> text, args |-> args]

\* the line counts the walk can come back with
SeqsUpTo(n, S) == UNION {[1..m -> S] : m \in 0..n}

ExampleSizes == {<<10, 20, 30>>, <<10, 20, 30, 40>>, <<1, 2, 3, 4, 5>>, <<5, 5, 5>>,
                 <<10, 12, 11, 500, 510, 505>>}

Inputs == SeqsUpTo(MaxFiles, 0..MaxLines) \cup ExampleSizes

\* Twelve files on which the loop of runKMeans is still moving samples in its
\* tenth iteration.  Their mean is an integer, which keeps the squared
\* deviations of computeStats within the 32-bit integers of the model checker;
\* they are run without -k for the same reason.
LongSizes == <<300, 16, 145, 359, 117, 281, 126, 310, 154, 296, 195, 317>>

\* the files of a walk: the i-th file found has Path i
FilesOf(counts) == [i \in 1..Len(counts) |-> [Path |-> i, LineCount |-> counts[i]]]

LineCounts(fs) == [i \in 1..Len(fs) |-> fs[i].LineCount]

NoHeap == [a \in {} |-> <<>>]

Start(counts, k, j, at, h) ==
  /\ pc = at
  /\ kFlag = k
  /\ jsonOutput = j
  /\ files = FilesOf(counts)
  /\ excludedFiles = <<>>
  /\ heap = h
  /\ smallest = <<>>
  /\ largest = <<>>
  /\ stats = ZeroStats
  /\ sumTotal = 0
  /\ centroids = <<>>
  /\ assignments = <<>>
  /\ iter = 0
  /\ changed = FALSE
  /\ summaries = <<>>
  /\ labels = <<>>
  /\ clusterResults = <<>>
  /\ jsonFile = <<>>
  /\ output = <<>>

\* main after flag.Parse and filepath.WalkDir
Init ==
  \/ \E counts \in Inputs, k \in (-1)..MaxK, j \in BOOLEAN :
       Start(counts, k, j, "exclude", NoHeap)
  \/ \E j \in BOOLEAN : Start(LongSizes, 0, j, "exclude", NoHeap)

\* one file more than asked for
ExcludedOneMore(n, len) == IF n >= len THEN len ELSE n + 1

\* the number of files -k n takes off the end of the sorted files
Excluded(n, len) == IF n >= len THEN len ELSE n

\* "Exclude the largest n files if -k is provided", then the empty check
Exclude ==
  /\ pc = "exclude"
  /\ LET sortedFiles == InsertionSort(files, "LineCount")
         n == Excluded(kFlag, Len(files))
         kept == IF kFlag > 0 THEN SubSeq(sortedFiles, 1, Len(files) - n) ELSE files
         excl == IF kFlag > 0
                 THEN SubSeq(sortedFiles, Len(files) - n + 1, Len(files))
                 ELSE <<>>
         printed ==
           IF kFlag <= 0 THEN <<>>
           ELSE IF kFlag >= Len(files)
           THEN <<Line("Excluding %d file(s) (largest files).", <<Len(files)>>)>>
           ELSE <<Line("Excluding %d largest file(s):", <<Len(excl)>>)>>
                  \o [i \in 1..Len(excl) |->
                        Line(" - %s: %d lines", <<excl[i].Path, excl[i].LineCount>>)]
                  \o <<Line("", <<>>)>>
     IN  /\ files' = kept
         /\ excludedFiles' = excl
         /\ IF Len(kept) = 0
            THEN /\ output' = output \o printed \o <<Line("No files found", <<>>)>>
                 /\ pc' = "done"
            ELSE /\ output' = output \o printed
                 /\ pc' = "sizes"
  /\ UNCHANGED <<kFlag, jsonOutput, heap, smallest, largest, stats, sumTotal,
                 centroids, assignments, iter, changed, summaries, labels,
                 clusterResults, jsonFile>>

\* the first file with the least (most) lines: the scan replaces only on a
\* strictly smaller (larger) count
Smallest(fs) ==
  LET i == CHOOSE i \in 1..Len(fs) :
             /\ \A j \in 1..Len(fs) : fs[i].LineCount <= fs[j].LineCount
             /\ \A j \in 1..(i - 1) : fs[j].LineCount > fs[i].LineCount
  IN  fs[i]

Largest(fs) ==
  LET i == CHOOSE i \in 1..Len(fs) :
             /\ \A j \in 1..Len(fs) : fs[i].LineCount >= fs[j].LineCount
             /\ \A j \in 1..(i - 1) : fs[j].LineCount < fs[i].LineCount
  IN  fs[i]

\* "Compute overall stats": sizes, smallest, largest
BuildSizes ==
  /\ pc = "sizes"
  /\ heap' = ("sizes" :> LineCounts(files)) @@ heap
  /\ smallest' = Smallest(files)
  /\ largest' = Largest(files)
  /\ pc' = "computeStats"
  /\ UNCHANGED <<kFlag, jsonOutput, files, excludedFiles, stats, sumTotal,
                 centroids, assignments, iter, changed, summaries, labels,
                 clusterResults, jsonFile, output>>

\* avg, median, stdHigh, stdLow := computeStats(sizes)
CallComputeStats ==
  /\ pc = "computeStats"
  /\ LET sorted == CopyOf("sizes", "sorted")
         copied == (sorted :> heap["sizes"]) @@ heap
         h == [copied EXCEPT ![sorted] = SortInts(@)]
     IN  /\ heap' = h
         /\ stats' = computeStats(h["sizes"], h[sorted])
  /\ pc' = "sumTotal"
  /\ UNCHANGED <<kFlag, jsonOutput, files, excludedFiles, smallest, largest,
                 sumTotal, centroids, assignments, iter, changed, summaries,
                 labels, clusterResults, jsonFile, output>>

\* a test that lets two files through
EnoughFilesFromTwo(n) == n >= 2

\* whether main clusters n files
EnoughFiles(n) == n >= 3

\* "Compute sum total lines", then the test `len(files) >= 3`
SumTotal ==
  /\ pc = "sumTotal"
  /\ sumTotal' = SumInts(heap["sizes"])
  /\ pc' = IF EnoughFiles(Len(files)) THEN "runKMeans" ELSE "report"
  /\ UNCHANGED <<kFlag, jsonOutput, files, excludedFiles, heap, smallest, largest,
                 stats, centroids, assignments, iter, changed, summaries, labels,
                 clusterResults, jsonFile, output>>

\* data := float64 of the line counts; runKMeans(data, k) up to its loop
CallRunKMeans ==
  /\ pc = "runKMeans"
  /\ LET data == [i \in 1..Len(files) |-> F(files[i].LineCount)]
         sortedData == CopyOf("data", "sortedData")
         withData == ("data" :> data) @@ heap
         copied == (sortedData :> data) @@ withData
         h == [copied EXCEPT ![sortedData] = SortFloat64s(@)]
     IN  /\ heap' = h
         /\ centroids' = InitCentroids(h[sortedData])
         /\ assignments' = [i \in 1..Len(data) |-> 0]
  /\ iter' = 0
  /\ changed' = FALSE
  /\ pc' = "iterate"
  /\ UNCHANGED <<kFlag, jsonOutput, files, excludedFiles, smallest, largest,
                 stats, sumTotal, summaries, labels, clusterResults, jsonFile,
                 output>>

\* a loop without the early break
LoopAgainNoBreak(it, chg) == it + 1 < MaxIter

\* whether the loop goes on after iteration number `it` (0-based)
LoopAgain(it, chg) == chg /\ it + 1 < MaxIter

\* an iteration that never sets changed
IterateChangedUnset ==
  /\ pc = "iterate"
  /\ LET data == heap["data"]
         assigned == [i \in 1..Len(data) |-> Best(data[i], centroids, K)]
         chg == FALSE
     IN  /\ assignments' = assigned
         /\ centroids' = NewCentroids(data, assigned, centroids, K)
         /\ changed' = chg
         /\ iter' = iter + 1
         /\ pc' = IF LoopAgain(iter, chg) THEN "iterate" ELSE "summaries"
  /\ UNCHANGED <<kFlag, jsonOutput, files, excludedFiles, heap, smallest, largest,
                 stats, sumTotal, summaries, labels, clusterResults, jsonFile,
                 output>>

\* one iteration of the loop of runKMeans: assign, recompute, test changed
Iterate ==
  /\ pc = "iterate"
  /\ LET data == heap["data"]
         assigned == [i \in 1..Len(data) |-> Best(data[i], centroids, K)]
         chg == assigned # assignments
     IN  /\ assignments' = assigned
         /\ centroids' = NewCentroids(data, assigned, centroids, K)
         /\ changed' = chg
         /\ iter' = iter + 1
         /\ pc' = IF LoopAgain(iter, chg) THEN "iterate" ELSE "summaries"
  /\ UNCHANGED <<kFlag, jsonOutput, files, excludedFiles, heap, smallest, largest,
                 stats, sumTotal, summaries, labels, clusterResults, jsonFile,
                 output>>

\* summaries := computeClusterSummaries(data, assignments, k)
CallComputeClusterSummaries ==
  /\ pc = "summaries"
  /\ summaries' = computeClusterSummaries(heap["data"], assignments, K)
  /\ pc' = "labels"
  /\ UNCHANGED <<kFlag, jsonOutput, files, excludedFiles, heap, smallest, largest,
                 stats, sumTotal, centroids, assignments, iter, changed, labels,
                 clusterResults, jsonFile, output>>

\* labels := labelClusters(summaries), then the loop that fills clusterResults
CallLabelClusters ==
  /\ pc = "labels"
  /\ labels' = labelClusters(summaries)
  /\ clusterResults' = ClusterResults(summaries, labels', Len(files), K)
  /\ pc' = "report"
  /\ UNCHANGED <<kFlag, jsonOutput, files, excludedFiles, heap, smallest, largest,
                 stats, sumTotal, centroids, assignments, iter, changed, summaries,
                 jsonFile, output>>

\* int((float64(fd.LineCount) / float64(maxLine)) * barWidth), barWidth = 50
BarLen(lineCount, maxLine) ==
  IF maxLine > 0 THEN (lineCount * 50) \div maxLine ELSE 0

\* the lines of the text report about the clusters
ClusterLines(n, results) ==
  IF EnoughFiles(n)
  THEN <<Line("File clusters (k-means clustering, k=3):", <<>>)>>
         \o [c \in 1..3 |->
               [text |-> " %s: %d files (%.2f%%), Avg = %.0f lines, Range = [%.0f, %.0f] lines",
                label |-> results[c].Label,
                args |-> <<results[c].Count, results[c].Avg,
                           results[c].Range[1], results[c].Range[2]>>]]
  ELSE <<Line("Not enough files for clustering.", <<>>)>>

\* "Detailed file listing (histogram/sorted/detailed)"
Listing(detailed, sorted, histogram) ==
  LET ordered == IF sorted THEN InsertionSort(files, "LineCount") ELSE files
  IN  IF histogram
      THEN <<Line("Detailed file histogram:", <<>>)>>
             \o [i \in 1..Len(ordered) |->
                   Line("%-*s: %s", <<ordered[i].Path,
                                      BarLen(ordered[i].LineCount, largest.LineCount)>>)]
      ELSE IF sorted
      THEN <<Line("Detailed file list (sorted smallest to largest):", <<>>)>>
             \o [i \in 1..Len(ordered) |->
                   Line("%s: %d lines", <<ordered[i].Path, ordered[i].LineCount>>)]
      ELSE IF detailed
      THEN <<Line("Detailed file list:", <<>>)>>
             \o [i \in 1..Len(files) |->
                   Line("%s: %d lines", <<files[i].Path, files[i].LineCount>>)]
      ELSE <<>>

\* the JSON output section
JSONReport(detailed, sorted, allFiles) ==
  /\ jsonFile' = [total_files |-> Len(files),
                  average |-> stats.avg,
                  median |-> stats.median,
                  std_dev_high |-> stats.stdHigh,
                  std_dev_low |-> stats.stdLow,
                  total_sum |-> IF allFiles THEN <<>> ELSE <<sumTotal>>,
                  smallest_file |-> smallest,
                  largest_file |-> largest,
                  files |-> IF sorted THEN InsertionSort(files, "LineCount")
                            ELSE IF detailed THEN files ELSE <<>>,
                  clusters |-> clusterResults]
  /\ output' = output \o <<Line("JSON output saved to %s", <<>>)>>

\* "Display results"
TextReport(detailed, sorted, histogram, allFiles) ==
  /\ output' = output
       \o <<Line("Total files analyzed: %d", <<Len(files)>>),
            Line("Average: %.0f lines", <<Round(stats.avg)>>),
            Line("Median: %.0f lines", <<Round(stats.median)>>),
            Line("Standard deviation (high): %.0f lines", <<Round(stats.stdHigh)>>),
            Line("Standard deviation (low): %.0f lines", <<Round(stats.stdLow)>>)>>
       \o (IF allFiles THEN <<>> ELSE <<Line("Total sum: %d lines", <<sumTotal>>)>>)
       \o <<Line("Smallest file: %s (%d lines)", <<smallest.Path, smallest.LineCount>>),
            Line("Largest file: %s (%d lines)", <<largest.Path, largest.LineCount>>)>>
       \o ClusterLines(Len(files), clusterResults)
       \o Listing(detailed, sorted, histogram)
  /\ jsonFile' = jsonFile

\* The report.  The flags -l, -s, -h and -a are read nowhere before it (the
\* walk, which reads -a, is over), so their values are drawn here.
Report ==
  /\ pc = "report"
  /\ \E detailed \in BOOLEAN, sorted \in BOOLEAN, histogram \in BOOLEAN,
        allFiles \in BOOLEAN :
       IF jsonOutput
       THEN JSONReport(detailed, sorted, allFiles)
       ELSE TextReport(detailed, sorted, histogram, allFiles)
  /\ pc' = "done"
  /\ UNCHANGED <<kFlag, jsonOutput, files, excludedFiles, heap, smallest, largest,
                 stats, sumTotal, centroids, assignments, iter, changed, summaries,
                 labels, clusterResults>>

Next ==
  \/ Exclude
  \/ BuildSizes
  \/ CallComputeStats
  \/ SumTotal
  \/ CallRunKMeans
  \/ Iterate
  \/ CallComputeClusterSummaries
  \/ CallLabelClusters
  \/ Report

Spec == Init /\ [][Next]_vars

\* computeStats on its own, over every sequence of sizes, the empty one included
InitStats ==
  \E counts \in Inputs \cup {LongSizes} :
    Start(counts, 0, FALSE, "computeStats", "sizes" :> counts)

NextStats == CallComputeStats

SpecStats == InitStats /\ [][NextStats]_vars

\* three files of more than 1e9 lines each
BigSizes == <<1000000001, 1000000002, 1000000003>>

\* The cluster engine on its own, from the call of runKMeans to the labels,
\* over every input of at least 3 files; this leaves out computeStats, whose
\* sums over BigSizes do not fit the 32-bit integers of the model checker.
InitCluster ==
  \E counts \in {c \in Inputs : Len(c) >= 3} \cup {LongSizes, BigSizes} :
    Start(counts, 0, FALSE, "runKMeans", NoHeap)

NextCluster ==
  \/ CallRunKMeans
  \/ Iterate
  \/ CallComputeClusterSummaries
  \/ CallLabelClusters

SpecCluster == InitCluster /\ [][NextCluster]_vars

\* ---- the claims ----
Clustered == pc \in {"labels", "report", "done"} /\ summaries # <<>>

Labelled == pc \in {"report", "done"} /\ labels # <<>>

RECURSIVE SumCounts(_, _)
SumCounts(sm, j) == IF j = 0 THEN 0 ELSE sm[j].Count + SumCounts(sm, j - 1)

\* C1: with at least 3 samples, the assignment runKMeans returns gives every
\* sample index one cluster id in 0..2, and the counts of
\* computeClusterSummaries are the sizes of the three clusters and add up to
\* the number of samples.
C1_Partition ==
  /\ pc \in {"summaries", "labels", "report", "done"} /\ assignments # <<>>
       => /\ DOMAIN assignments = 1..Len(heap["data"])
          /\ \A i \in DOMAIN assignments : assignments[i] \in 0..(K - 1)
  /\ Clustered
       => /\ Len(heap["data"]) >= 3
          /\ \A j \in 0..(K - 1) :
               summaries[j + 1].Count = Cardinality(Members(assignments, j))
          /\ SumCounts(summaries, K) = Len(heap["data"])

\* a clustering with three non-empty clusters, one of them with several samples
C1_Witness ==
  /\ Clustered
  /\ \A j \in 1..K : summaries[j].Count > 0
  /\ \E j \in 1..K : summaries[j].Count > 1

\* the cluster id that carries label l
IdOf(l) == CHOOSE j \in DOMAIN labels : labels[j] = l

AvgOf(l) == summaries[IdOf(l) + 1].Avg

\* C2: labelClusters gives the labels Small, Medium, Large to the three cluster
\* ids one-to-one, and avg(Small) <= avg(Medium) <= avg(Large).
C2_LabelsOrdered ==
  Labelled
    => /\ DOMAIN labels = 0..(K - 1)
       /\ \A l \in {"Small", "Medium", "Large"} :
            Cardinality({j \in DOMAIN labels : labels[j] = l}) = 1
       /\ ~FLess(AvgOf("Medium"), AvgOf("Small"))
       /\ ~FLess(AvgOf("Large"), AvgOf("Medium"))

\* three non-empty clusters with three different averages
C2_Witness ==
  /\ Labelled
  /\ \A j \in 1..K : summaries[j].Count > 0
  /\ FLess(AvgOf("Small"), AvgOf("Medium"))
  /\ FLess(AvgOf("Medium"), AvgOf("Large"))

Rank(l) == CASE l = "Small" -> 1 [] l = "Medium" -> 2 [] l = "Large" -> 3

\* C3: among clusters of equal average (an empty cluster has average 0) the
\* lower cluster id gets the smaller label.
C3_TiesByClusterId ==
  Labelled
    => \A i \in 0..(K - 1), j \in 0..(K - 1) :
         i < j /\ summaries[i + 1].Avg = summaries[j + 1].Avg
           => Rank(labels[i]) < Rank(labels[j])

\* two clusters of equal average that do not get the labels of their ids:
\* clusters 1 and 2 are empty, cluster 0 has a positive average
C3_Witness ==
  /\ Labelled
  /\ summaries[2].Avg = summaries[3].Avg
  /\ FLess(summaries[2].Avg, summaries[1].Avg)
  /\ labels[1] = "Small" /\ labels[2] = "Medium"

\* computeStats has returned
StatsDone == pc \in {"sumTotal", "runKMeans", "iterate", "summaries", "labels",
                     "report", "done"}

\* C5: computeStats of the empty sequence returns average, median, stdDevHigh
\* and stdDevLow all 0, and does not fail.
C5_EmptyStats ==
  StatsDone /\ heap["sizes"] = <<>>
    => /\ ~stats.panicked
       /\ stats.avg = F(0) /\ stats.median = F(0)
       /\ stats.stdHigh = F(0) /\ stats.stdLow = F(0)

C5_Witness == pc = "sumTotal" /\ heap["sizes"] = <<>>

\* the r-th smallest value of s (r = 1 for the least), by counting
OrderStat(s, r) ==
  CHOOSE v \in {s[i] : i \in DOMAIN s} :
    /\ Cardinality({i \in DOMAIN s : s[i] < v}) < r
    /\ Cardinality({i \in DOMAIN s : s[i] <= v}) >= r

MedianOf(s) ==
  LET n == Len(s)
  IN  IF n % 2 = 1 THEN F(OrderStat(s, (n \div 2) + 1))
      ELSE Rat(OrderStat(s, n \div 2) + OrderStat(s, (n \div 2) + 1), 2)

\* C6: the median of a non-empty sequence is the middle element of the sorted
\* values for an odd count, the mean of the two middle elements for an even
\* count; [10,20,30] gives 20, [10,20,30,40] gives 25, [1,2,3,4,5] gives 3.
C6_Median ==
  StatsDone /\ heap["sizes"] # <<>>
    => /\ stats.median = MedianOf(heap["sizes"])
       /\ heap["sizes"] = <<10, 20, 30>> => stats.median = F(20)
       /\ heap["sizes"] = <<10, 20, 30, 40>> => stats.median = F(25)
       /\ heap["sizes"] = <<1, 2, 3, 4, 5>> => stats.median = F(3)

\* an even count, not in ascending order, whose median is not an integer
C6_Witness ==
  /\ pc = "sumTotal"
  /\ Len(heap["sizes"]) % 2 = 0 /\ Len(heap["sizes"]) > 2
  /\ \E i \in 1..(Len(heap["sizes"]) - 1) : heap["sizes"][i] > heap["sizes"][i + 1]
  /\ stats.median.den = 2

RECURSIVE Total(_, _)
Total(s, i) == IF i = 0 THEN 0 ELSE s[i] + Total(s, i - 1)

\* C7: the average of a non-empty sequence S is the arithmetic mean:
\* average * len(S) = sum(S); the average of the empty sequence is 0.
C7_Average ==
  StatsDone
    => IF heap["sizes"] = <<>>
       THEN stats.avg = F(0)
       ELSE /\ stats.avg.root = 1
            /\ stats.avg.num * Len(heap["sizes"])
                 = Total(heap["sizes"], Len(heap["sizes"])) * stats.avg.den

\* a mean that is not an integer
C7_Witness == pc = "sumTotal" /\ heap["sizes"] # <<>> /\ stats.avg.den = 3

\* the square of a value [num, den, root]
Squared(a) == IF a.root = 2 THEN Rat(a.num, a.den) ELSE Rat(a.num * a.num, a.den * a.den)

\* the indices of the samples >= the mean, and of those < the mean
HighPart(s) == {i \in DOMAIN s : s[i] * Len(s) >= Total(s, Len(s))}

LowPart(s) == {i \in DOMAIN s : s[i] * Len(s) < Total(s, Len(s))}

RECURSIVE SqDev(_, _)
\* the sum over I of (s[i]*n - sum)^2, which is n^2 times the squared deviations
SqDev(s, I) ==
  IF I = {} THEN 0
  ELSE LET i == CHOOSE x \in I : TRUE
           d == s[i] * Len(s) - Total(s, Len(s))
       IN  d * d + SqDev(s, I \ {i})

\* sd is the root of the mean squared deviation of the samples of I, 0 for no sample
IsOneSidedDev(sd, s, I) ==
  IF I = {} THEN sd = F(0)
  ELSE /\ sd.num >= 0
       /\ Squared(sd) = Rat(SqDev(s, I), Len(s) * Len(s) * Cardinality(I))

\* C8: stdDevHigh is taken over the samples >= average, stdDevLow over the
\* samples < average, each the square root of the mean squared deviation from
\* the overall average with the partition's own count as divisor, and exactly 0
\* for a partition without samples; for [5,5,5] both are 0.
C8_OneSidedStdDev ==
  StatsDone /\ heap["sizes"] # <<>>
    => /\ IsOneSidedDev(stats.stdHigh, heap["sizes"], HighPart(heap["sizes"]))
       /\ IsOneSidedDev(stats.stdLow, heap["sizes"], LowPart(heap["sizes"]))
       /\ heap["sizes"] = <<5, 5, 5>> => stats.stdHigh = F(0) /\ stats.stdLow = F(0)

\* samples below, at and above the average, with two different deviations
C8_Witness ==
  /\ pc = "sumTotal"
  /\ LowPart(heap["sizes"]) # {}
  /\ \E i \in HighPart(heap["sizes"]) :
       heap["sizes"][i] * Len(heap["sizes"]) = Total(heap["sizes"], Len(heap["sizes"]))
  /\ stats.stdHigh # stats.stdLow
  /\ stats.stdHigh # F(0)

\* data as main builds it from files
DataOf(fs) == [i \in 1..Len(fs) |-> F(fs[i].LineCount)]

\* C9: computeStats and runKMeans leave the caller's sequence as it was: the
\* call of computeStats does not change sizes, and data is, at the first line
\* of runKMeans' loop and after every iteration up to the return, the sequence
\* main has built.
C9_InputUnchanged ==
  [][/\ pc = "computeStats" => heap'["sizes"] = heap["sizes"]
     /\ pc = "runKMeans" => heap'["data"] = DataOf(files)
     /\ pc = "iterate" => heap'["data"] = heap["data"]]_vars

\* runKMeans has returned, and neither sizes nor data was in ascending order
C9_Witness ==
  /\ pc = "summaries"
  /\ heap["sorted"] # heap["sizes"]
  /\ heap["sortedData"] # heap["data"]
  /\ heap["data"] = DataOf(files)
  /\ heap["sizes"] = LineCounts(files)

HasLine(text) == \E i \in DOMAIN output : output[i].text = text

\* C10: runKMeans is called only with at least 3 analysed files; with 1 or 2
\* analysed files there is no clustering, clusterResults stays nil, and the text
\* report prints "Not enough files for clustering.".
C10_ClusterOnlyFromThree ==
  /\ pc \in {"runKMeans", "iterate", "summaries", "labels"} => Len(files) >= 3
  /\ "data" \in DOMAIN heap \/ assignments # <<>> \/ summaries # <<>> \/ labels # <<>>
       => Len(files) >= 3
  /\ pc \in {"report", "done"} /\ Len(files) \in {1, 2}
       => clusterResults = <<>>
  /\ pc = "done" /\ Len(files) \in {1, 2} /\ ~jsonOutput
       => /\ HasLine("Not enough files for clustering.")
          /\ ~HasLine("File clusters (k-means clustering, k=3):")

\* a text report over the two files that -k has left of more
C10_Witness ==
  /\ pc = "done"
  /\ Len(files) = 2 /\ Len(excludedFiles) > 0
  /\ ~jsonOutput
  /\ HasLine("Not enough files for clustering.")

\* C11: for the line counts [10, 12, 11, 500, 510, 505] the clustering puts
\* indices 0, 1, 2 in one cluster that holds none of indices 3, 4, 5, and that
\* cluster is labelled Small.
C11_EndToEnd ==
  Labelled /\ heap["data"] = DataOf(FilesOf(<<10, 12, 11, 500, 510, 505>>))
    => /\ assignments[1] = assignments[2] /\ assignments[2] = assignments[3]
       /\ \A i \in 4..6 : assignments[i] # assignments[1]
       /\ labels[assignments[1]] = "Small"

\* the six files clustered and labelled, 500 and 505 apart from 510
C11_Witness ==
  /\ Labelled
  /\ heap["data"] = DataOf(FilesOf(<<10, 12, 11, 500, 510, 505>>))
  /\ assignments = <<0, 0, 0, 1, 2, 1>>

FileSet(fs) == {fs[i] : i \in DOMAIN fs}

OutputHas(out, text) == \E i \in DOMAIN out : out[i].text = text

\* C12: with -k n and m matched files: for 0 < n < m exactly n files are
\* excluded, each with at least as many lines as every analysed file, and the
\* statistics and clusters are computed over the m-n files that remain; for
\* n >= m all files are excluded and the run ends with "No files found" without
\* computing statistics; for n <= 0 nothing is excluded.
C12_ExcludeLargest ==
  [][LET n == kFlag
         m == Len(files)
     IN  /\ pc = "exclude" /\ 0 < n /\ n < m
              => /\ Len(excludedFiles') = n /\ Len(files') = m - n
                 /\ FileSet(files') \cup FileSet(excludedFiles') = FileSet(files)
                 /\ FileSet(files') \cap FileSet(excludedFiles') = {}
                 /\ \A e \in FileSet(excludedFiles'), f \in FileSet(files') :
                      e.LineCount >= f.LineCount
                 /\ pc' = "sizes"
         /\ pc = "exclude" /\ n >= m
              => /\ files' = <<>>
                 /\ Len(excludedFiles') = m
                 /\ FileSet(excludedFiles') = FileSet(files)
                 /\ OutputHas(output', "No files found")
                 /\ pc' = "done" /\ heap' = NoHeap /\ stats' = ZeroStats
         /\ pc = "exclude" /\ n <= 0
              => files' = files /\ excludedFiles' = <<>>
         /\ pc # "exclude" => files' = files /\ excludedFiles' = excludedFiles
         /\ pc = "sizes" => heap'["sizes"] = LineCounts(files)
         /\ pc = "computeStats"
              => /\ heap'["sizes"] = LineCounts(files)
                 /\ stats'.avg = Rat(Total(LineCounts(files), Len(files)), Len(files))
                 /\ stats'.median = MedianOf(LineCounts(files))
         /\ pc = "runKMeans"
              => /\ heap'["data"] = DataOf(files)
                 /\ Len(assignments') = Len(files)]_vars

\* a finished run in which -k took away files that the walk had found early,
\* and three or more files were left to cluster
C12_Witness ==
  /\ pc = "done"
  /\ kFlag > 0 /\ Len(excludedFiles) = kFlag
  /\ Len(files) >= 3 /\ clusterResults # <<>>
  /\ \E e \in FileSet(excludedFiles), f \in FileSet(files) : e.Path < f.Path
  /\ Len(heap["sizes"]) = Len(files)

\* C13: runKMeans returns after at most 10 iterations, and right after the
\* first iteration that changes no assignment (the first iteration is compared
\* with the all-zero assignment); while assignments change and fewer than 10
\* iterations are done it goes on.
C13_IterationsBounded ==
  [][pc = "iterate"
       => /\ iter < MaxIter /\ iter' = iter + 1
          /\ iter = 0 => \A i \in DOMAIN assignments : assignments[i] = 0
          /\ changed' = (assignments' # assignments)
          /\ assignments' = assignments => pc' = "summaries"
          /\ iter' = MaxIter => pc' = "summaries"
          /\ assignments' # assignments /\ iter' < MaxIter => pc' = "iterate"]_vars

\* runKMeans has returned from its tenth iteration, which still moved a sample
C13_Witness == pc = "summaries" /\ iter = MaxIter /\ changed

\* |x - c| <= |x - d| for an integer x and centroids c, d
NotFarther(x, c, d) ==
  Abs(x * c.den - c.num) * d.den <= Abs(x * d.den - d.num) * c.den

\* cluster id b is the lowest-numbered among the centroids nearest to x
IsLowestNearest(x, b, cs) ==
  /\ \A j \in 0..(K - 1) : NotFarther(x, cs[b + 1], cs[j + 1])
  /\ \A j \in 0..(b - 1) : ~NotFarther(x, cs[j + 1], cs[b + 1])

\* C14: every assignment step gives each sample a centroid of minimum absolute
\* distance, the lowest-numbered one when several are at that distance.
C14_NearestLowestIndex ==
  [][pc = "iterate"
       => \A i \in DOMAIN files :
            IsLowestNearest(files[i].LineCount, assignments'[i], centroids)]_vars

\* the first assignment step is done, its centroids being the seeds, and a
\* sample sits at the same distance from its own centroid and from a different
\* one with a higher id
C14_Witness ==
  /\ pc \in {"iterate", "summaries"} /\ iter = 1
  /\ LET seeds == InitCentroids(heap["sortedData"])
     IN  \E i \in DOMAIN files, j \in 0..(K - 1) :
           /\ j > assignments[i]
           /\ seeds[j + 1] # seeds[assignments[i] + 1]
           /\ NotFarther(files[i].LineCount, seeds[j + 1], seeds[assignments[i] + 1])

\* C15: in every centroid update a cluster with samples gets their mean, and a
\* cluster without samples keeps the centroid it had before the step.
C15_CentroidUpdate ==
  [][pc = "iterate"
       => \A c \in 0..(K - 1) :
            LET I == {i \in DOMAIN files : assignments'[i] = c}
                sum == Total([i \in DOMAIN files |->
                                IF i \in I THEN files[i].LineCount ELSE 0], Len(files))
            IN  IF I = {}
                THEN centroids'[c + 1] = centroids[c + 1]
                ELSE /\ centroids'[c + 1].root = 1
                     /\ centroids'[c + 1].num * Cardinality(I)
                          = sum * centroids'[c + 1].den]_vars

\* runKMeans has returned with an empty cluster that kept a centroid other
\* than 0, next to a cluster of several samples whose mean is not an integer
C15_Witness ==
  /\ pc = "summaries"
  /\ \E c \in 0..(K - 1) :
       /\ Members(assignments, c) = {}
       /\ centroids[c + 1] # F(0)
  /\ \E c \in 0..(K - 1) :
       /\ Cardinality(Members(assignments, c)) > 1
       /\ centroids[c + 1].den > 1

\* the values of the samples of cluster j
ValuesOf(j) == {files[i].LineCount : i \in Members(assignments, j)}

Least(S) == CHOOSE x \in S : \A y \in S : x <= y

\* summaries[j] is what the claim says of a cluster with the samples vs
IsSummaryOf(sm, j) ==
  LET vs == ValuesOf(j)
      sum == Total([i \in DOMAIN files |->
                      IF assignments[i] = j THEN files[i].LineCount ELSE 0], Len(files))
  IN  IF sm.Count > 0
      THEN /\ sm.Min = F(Least(vs)) /\ sm.Max = F(Max(vs))
           /\ sm.Sum = F(sum)
           /\ sm.Avg.root = 1 /\ sm.Avg.num * sm.Count = sum * sm.Avg.den
           /\ ~FLess(sm.Avg, sm.Min) /\ ~FLess(sm.Max, sm.Avg)
      ELSE /\ sm.Avg = F(0)
           /\ sm.Min = F(MinSentinel) /\ sm.Max = F(MaxSentinel)

\* C16: for a cluster with count > 0 computeClusterSummaries returns the
\* smallest and the largest assigned sample as min and max, their sum as sum,
\* and avg = sum/count with min <= avg <= max; for a cluster with count = 0
\* avg is 0 and min and max are the sentinels 1e9 and -1.
C16_Summaries ==
  Clustered => \A j \in 0..(K - 1) : IsSummaryOf(summaries[j + 1], j)

\* C16, for the inputs whose line counts are all below the sentinel 1e9
C16_SummariesBelowSentinel ==
  Clustered /\ (\A i \in DOMAIN files : files[i].LineCount < MinSentinel)
    => \A j \in 0..(K - 1) : IsSummaryOf(summaries[j + 1], j)

AllValues == {files[i].LineCount : i \in DOMAIN files}

\* C17 as stated: for every input of at least 3 samples the bucket labelled
\* Small holds the smallest sample and the bucket labelled Large the largest,
\* also when one of the three clusters is empty.
C17_SmallHoldsSmallest ==
  Labelled
    => /\ Least(AllValues) \in ValuesOf(IdOf("Small"))
       /\ Max(AllValues) \in ValuesOf(IdOf("Large"))

\* C17, amended: for every input of at least 3 samples whose clustering leaves
\* none of the three clusters empty, the bucket labelled Small holds the
\* smallest sample and the bucket labelled Large the largest.
C17_SmallHoldsSmallestIfNoneEmpty ==
  Labelled /\ (\A j \in 0..(K - 1) : Members(assignments, j) # {})
    => /\ Least(AllValues) \in ValuesOf(IdOf("Small"))
       /\ Max(AllValues) \in ValuesOf(IdOf("Large"))

\* three non-empty clusters over files that the walk did not find in ascending
\* order, the smallest of them found last
C17_Witness ==
  /\ Labelled
  /\ \A j \in 0..(K - 1) : Members(assignments, j) # {}
  /\ files[Len(files)].LineCount = Least(AllValues)
  /\ files[Len(files)].LineCount < files[1].LineCount
  /\ labels[assignments[Len(files)]] = "Small"

Returned == pc \in {"summaries", "labels", "report", "done"} /\ assignments # <<>>

\* C19: when runKMeans returns, the centroid of every non-empty cluster is the
\* mean of the samples the returned assignment gives it; and when it returns by
\* the early stop, assigning the samples again with the returned centroids
\* gives the returned assignment.
C19_ReturnedCentroids ==
  Returned
    => /\ \A c \in 0..(K - 1) :
            LET I == Members(assignments, c)
                sum == Total([i \in DOMAIN files |->
                                IF i \in I THEN files[i].LineCount ELSE 0], Len(files))
            IN  I # {} => /\ centroids[c + 1].root = 1
                          /\ centroids[c + 1].num * Cardinality(I)
                               = sum * centroids[c + 1].den
       /\ ~changed
            => \A i \in DOMAIN files :
                 IsLowestNearest(files[i].LineCount, assignments[i], centroids)

\* runKMeans has returned by the early stop after three or more iterations:
\* the second one moved a sample and the centroids were recomputed from it
C19_Witness == pc = "summaries" /\ ~changed /\ iter >= 3

====
